---- MODULE Spec2Model ----
(***************************************************************************)
(* Model of BFS_DFS_Visualizer.py: the graph, the two traversals that      *)
(* precompute the step sequences, and the playback state kept in the       *)
(* module globals traversal_type, current_step, is_playing, is_paused and  *)
(* current_animation, driven by the button / key handlers and by the       *)
(* timer of matplotlib's FuncAnimation.                                    *)
(*                                                                         *)
(* FuncAnimation(fig, draw_step, frames=n, interval=1000, repeat=False)    *)
(* is modelled by what the handlers can observe of it:                     *)
(*   frames        n, fixed at construction (frames=len(steps));           *)
(*   frame         the position of its own frame iterator range(n);        *)
(*   event_source  "running", "stopped" (pause()/stop() was called) or     *)
(*                 "None" (the attribute was set to None).                  *)
(* Each timer tick calls draw_step(frame) and advances the iterator; the   *)
(* tick that finds the iterator exhausted ends the animation.  How a       *)
(* finished repeat=False animation is left depends on the matplotlib       *)
(* release, which the program does not pin: older releases only stop the   *)
(* timer, newer ones also set event_source to None.  Both are modelled;    *)
(* clears_event_source says which library the process runs with.           *)
(***************************************************************************)
EXTENDS Integers, Sequences, FiniteSets, TLC

VARIABLES traversal_type, current_step, is_playing, is_paused,
          current_animation, clears_event_source,
          lastEvent, pre, error

(* One run of bfs_traversal / dfs_traversal, one loop iteration at a time:
   the graph G, the argument start, which of the two functions runs, and
   its locals queue, stack, visited and steps.  t_order lists the nodes in
   the order in which the loop body took its "not in visited" branch, t_pc
   is the position: "loop", "done" after return, "idle" when no run is
   being looked at. *)
VARIABLES t_graph, t_start, t_alg, t_queue, t_stack, t_visited, t_steps,
          t_order, t_pc

tvars == <<t_graph, t_start, t_alg, t_queue, t_stack, t_visited, t_steps,
           t_order, t_pc>>

vars == <<traversal_type, current_step, is_playing, is_paused,
          current_animation, clears_event_source, lastEvent, pre, error,
          t_graph, t_start, t_alg, t_queue, t_stack, t_visited, t_steps,
          t_order, t_pc>>

---------------------------------------------------------------------------
(* Graph model *)

edges == << <<"A", "B">>, <<"A", "C">>,
            <<"B", "D">>, <<"B", "E">>,
            <<"C", "F">>, <<"C", "G">>,
            <<"A", "H">>, <<"H", "I">> >>

start == "A"

RECURSIVE NeighborsFrom(_, _)
NeighborsFrom(node, k) ==
    IF k > Len(edges) THEN << >>
    ELSE IF edges[k][1] = node THEN <<edges[k][2]>> \o NeighborsFrom(node, k + 1)
    ELSE IF edges[k][2] = node THEN <<edges[k][1]>> \o NeighborsFrom(node, k + 1)
    ELSE NeighborsFrom(node, k + 1)

(* G.neighbors(node): adjacency in edge insertion order *)
neighbors(node) == NeighborsFrom(node, 1)

Reverse(s) == [i \in 1..Len(s) |-> s[Len(s) + 1 - i]]

---------------------------------------------------------------------------
(* Traversal engine: a step is the visited set after one more node *)

RECURSIVE BfsLoop(_, _, _)
BfsLoop(queue, visited, steps) ==
    IF queue = << >> THEN steps
    ELSE LET node == Head(queue)
             rest == Tail(queue)
         IN IF node \notin visited
            THEN LET v2 == visited \cup {node}
                 IN BfsLoop(rest \o SelectSeq(neighbors(node), LAMBDA n : n \notin v2),
                            v2, Append(steps, v2))
            ELSE BfsLoop(rest, visited, steps)

bfs_traversal(s) == BfsLoop(<<s>>, {}, << >>)

RECURSIVE DfsLoop(_, _, _)
DfsLoop(stack, visited, steps) ==
    IF stack = << >> THEN steps
    ELSE LET node == stack[Len(stack)]
             rest == SubSeq(stack, 1, Len(stack) - 1)
         IN IF node \notin visited
            THEN LET v2 == visited \cup {node}
                 IN DfsLoop(rest \o Reverse(neighbors(node)), v2, Append(steps, v2))
            ELSE DfsLoop(rest, visited, steps)

dfs_traversal(s) == DfsLoop(<<s>>, {}, << >>)

bfs_steps == bfs_traversal(start)
dfs_steps == dfs_traversal(start)

(* steps = bfs_steps if traversal_type == 'BFS' else dfs_steps *)
StepsOf(t) == IF t = "BFS" THEN bfs_steps ELSE dfs_steps

---------------------------------------------------------------------------
(* Playback state *)

None == << >>

Algorithms == {"BFS", "DFS"}

(* The globals as one value; error is set when the handler raised *)
Cur == [traversal_type    |-> traversal_type,
        current_step      |-> current_step,
        is_playing        |-> is_playing,
        is_paused         |-> is_paused,
        current_animation |-> current_animation,
        error             |-> FALSE,
        lastEvent         |-> lastEvent]

(* animation.FuncAnimation(fig, draw_step, frames=len(steps), interval=1000,
   repeat=False): its own frame iterator starts at 0 and its timer runs *)
FuncAnimation(frames) ==
    <<[frames |-> frames, frame |-> 0, event_source |-> "running"]>>

(* current_animation.event_source.stop() / Animation.pause() *)
StopSource(anim) == <<[anim[1] EXCEPT !.event_source = "stopped"]>>

(* Animation.resume() *)
StartSource(anim) == <<[anim[1] EXCEPT !.event_source = "running"]>>

(* draw_step(i): current_step = i; draw_current_step() only renders *)
draw_step(s, i) == [s EXCEPT !.current_step = i]

reset_to_beginning(s) == [s EXCEPT !.current_step = 0]

(* A method call on event_source raises AttributeError when it is None and
   the handler stops there, keeping what it had assigned before. *)
Raise(s) == [s EXCEPT !.error = TRUE]

(* pause_animation that flips the flags but leaves the timer running *)
pause_animation_keepsTimer(s) ==
    IF s.current_animation # None /\ s.is_playing
    THEN IF s.current_animation[1].event_source = "None"
         THEN Raise(s)
         ELSE [s EXCEPT !.is_playing = FALSE,
                        !.is_paused = TRUE]
    ELSE s

(* pause_animation that forgets is_playing = False *)
pause_animation_staysPlaying(s) ==
    IF s.current_animation # None /\ s.is_playing
    THEN IF s.current_animation[1].event_source = "None"
         THEN Raise(s)
         ELSE [s EXCEPT !.current_animation = StopSource(s.current_animation),
                        !.is_paused = TRUE]
    ELSE s

pause_animation(s) ==
    IF s.current_animation # None /\ s.is_playing
    THEN IF s.current_animation[1].event_source = "None"
         THEN Raise(s)
         ELSE [s EXCEPT !.current_animation = StopSource(s.current_animation),
                        !.is_playing = FALSE,
                        !.is_paused = TRUE]
    ELSE s

(* start_animation that forgets reset_to_beginning() *)
start_animation_noRewind(s) ==
    IF s.is_paused
    THEN IF s.current_animation = None
            \/ s.current_animation[1].event_source = "None"
         THEN Raise(s)
         ELSE [s EXCEPT !.current_animation = StartSource(s.current_animation),
                        !.is_playing = TRUE,
                        !.is_paused = FALSE]
    ELSE LET steps == StepsOf(s.traversal_type)
         IN [s EXCEPT !.current_animation = FuncAnimation(Len(steps)),
                      !.is_playing = TRUE,
                      !.is_paused = FALSE]

start_animation(s) ==
    IF s.is_paused
    THEN IF s.current_animation = None
            \/ s.current_animation[1].event_source = "None"
         THEN Raise(s)
         ELSE [s EXCEPT !.current_animation = StartSource(s.current_animation),
                        !.is_playing = TRUE,
                        !.is_paused = FALSE]
    ELSE LET r == reset_to_beginning(s)
             steps == StepsOf(r.traversal_type)
         IN [r EXCEPT !.current_animation = FuncAnimation(Len(steps)),
                      !.is_playing = TRUE,
                      !.is_paused = FALSE]

(* next_step guarded by current_step <= len(steps) *)
next_step_pastEnd(s) ==
    LET steps == StepsOf(s.traversal_type)
    IN IF s.current_step <= Len(steps)
       THEN LET r == [s EXCEPT !.current_step = s.current_step + 1]
            IN IF r.is_playing THEN pause_animation(r) ELSE r
       ELSE s

next_step(s) ==
    LET steps == StepsOf(s.traversal_type)
    IN IF s.current_step < Len(steps) - 1
       THEN LET r == [s EXCEPT !.current_step = s.current_step + 1]
            IN IF r.is_playing THEN pause_animation(r) ELSE r
       ELSE s

(* prev_step guarded by current_step >= 0 *)
prev_step_belowZero(s) ==
    IF s.current_step >= 0
    THEN LET r == [s EXCEPT !.current_step = s.current_step - 1]
         IN IF r.is_playing THEN pause_animation(r) ELSE r
    ELSE s

prev_step(s) ==
    IF s.current_step > 0
    THEN LET r == [s EXCEPT !.current_step = s.current_step - 1]
         IN IF r.is_playing THEN pause_animation(r) ELSE r
    ELSE s

(* reset_graph that forgets current_step = 0 *)
reset_graph_keepsStep(s) ==
    LET stopped == s.current_animation # None
                   /\ s.current_animation[1].event_source # "None"
        r == IF stopped THEN [s EXCEPT !.current_animation = None] ELSE s
    IN [r EXCEPT !.is_playing = FALSE,
                 !.is_paused = FALSE]

(* reset_graph without the block that stops and drops the animation *)
reset_graph_keepsAnimation(s) ==
    [s EXCEPT !.is_playing = FALSE,
              !.is_paused = FALSE,
              !.current_step = 0]

(* reset_graph that also goes back to the default algorithm *)
reset_graph_resetsAlgorithm(s) ==
    LET stopped == s.current_animation # None
                   /\ s.current_animation[1].event_source # "None"
        r == IF stopped THEN [s EXCEPT !.current_animation = None] ELSE s
    IN [r EXCEPT !.is_playing = FALSE,
                 !.is_paused = FALSE,
                 !.current_step = 0,
                 !.traversal_type = "BFS"]

reset_graph(s) ==
    LET stopped == s.current_animation # None
                   /\ s.current_animation[1].event_source # "None"
        r == IF stopped THEN [s EXCEPT !.current_animation = None] ELSE s
    IN [r EXCEPT !.is_playing = FALSE,
                 !.is_paused = FALSE,
                 !.current_step = 0]

(* set_bfs / set_dfs *)
set_algorithm(s, a) ==
    [s EXCEPT !.traversal_type = a, !.current_step = 0]

toggle_play_pause(s) ==
    IF s.is_playing THEN pause_animation(s) ELSE start_animation(s)

(* the timer callback of a FuncAnimation created without repeat=False: when
   the iterator is exhausted it draws the first frame and starts over *)
animation_step_repeats(s, clears) ==
    LET a == s.current_animation[1]
    IN IF a.frame < a.frames
       THEN [draw_step(s, a.frame) EXCEPT
                !.current_animation = <<[a EXCEPT !.frame = a.frame + 1]>>]
       ELSE [draw_step(s, 0) EXCEPT
                !.current_animation = <<[a EXCEPT !.frame = 0]>>]

(* One firing of the animation's timer callback (repeat=False): draw the
   next frame of the animation's own iterator, or, when the iterator is
   exhausted, end the animation. *)
animation_step(s, clears) ==
    LET a == s.current_animation[1]
    IN IF a.frame < a.frames
       THEN [draw_step(s, a.frame) EXCEPT
                !.current_animation = <<[a EXCEPT !.frame = a.frame + 1]>>]
       ELSE [s EXCEPT !.current_animation =
                <<[a EXCEPT !.event_source =
                      IF clears THEN "None" ELSE "stopped"]>>]

(* The spec's name of the event that toggle_play_pause amounts to *)
ToggleEvent(s) ==
    IF s.is_playing THEN "Pause" ELSE IF s.is_paused THEN "Resume" ELSE "Start"

---------------------------------------------------------------------------
(* State machine *)

Apply(r) ==
    /\ traversal_type' = r.traversal_type
    /\ current_step' = r.current_step
    /\ is_playing' = r.is_playing
    /\ is_paused' = r.is_paused
    /\ current_animation' = r.current_animation
    /\ error' = r.error
    /\ pre' = Cur
    /\ UNCHANGED clears_event_source
    /\ UNCHANGED tvars

(* the precomputation of lines 168-169 is over: no traversal is running *)
TraversalIdle ==
    /\ t_graph = edges
    /\ t_start = start
    /\ t_alg = "BFS"
    /\ t_queue = << >>
    /\ t_stack = << >>
    /\ t_visited = {}
    /\ t_steps = << >>
    /\ t_order = << >>
    /\ t_pc = "idle"

(* Globals of lines 19-24 after the initial reset_graph(None) of line 208 *)
PlaybackInit ==
    /\ traversal_type = "BFS"
    /\ current_step = 0
    /\ is_playing = FALSE
    /\ is_paused = FALSE
    /\ current_animation = None
    /\ clears_event_source \in BOOLEAN
    /\ error = FALSE
    /\ lastEvent = "Init"
    /\ pre = [traversal_type |-> "BFS", current_step |-> 0,
              is_playing |-> FALSE, is_paused |-> FALSE,
              current_animation |-> None, error |-> FALSE,
              lastEvent |-> "Init"]

Init == PlaybackInit /\ TraversalIdle

SelectAlgorithm ==
    \E a \in Algorithms :
        /\ lastEvent' = "SelectAlgorithm"
        /\ Apply(set_algorithm(Cur, a))

Toggle ==
    /\ lastEvent' = ToggleEvent(Cur)
    /\ Apply(toggle_play_pause(Cur))

(* pause_animation called on its own; from the buttons it is only reached
   through toggle_play_pause, next_step and prev_step, and on its own it
   reaches no further program state *)
Pause ==
    /\ lastEvent' = "Pause"
    /\ Apply(pause_animation(Cur))

NextStep ==
    /\ lastEvent' = "Next"
    /\ Apply(next_step(Cur))

PrevStep ==
    /\ lastEvent' = "Prev"
    /\ Apply(prev_step(Cur))

Reset ==
    /\ lastEvent' = "Reset"
    /\ Apply(reset_graph(Cur))

TimerTick ==
    /\ current_animation # None
    /\ current_animation[1].event_source = "running"
    /\ lastEvent' = "TimerTick"
    /\ Apply(animation_step(Cur, clears_event_source))

Next ==
    \/ SelectAlgorithm
    \/ Toggle
    \/ Pause
    \/ NextStep
    \/ PrevStep
    \/ Reset
    \/ TimerTick

Spec == Init /\ [][Next]_vars

---------------------------------------------------------------------------
(* The traversal loops, one iteration per step, over a family of graphs *)

(* number of nodes of the small graphs the loops are run on *)
MaxNodes == 4

(* node labels of the program's graph *)
NodeNames == <<"A", "B", "C", "D", "E", "F", "G", "H", "I">>

RECURSIVE PairsFrom(_, _)
PairsFrom(i, j) ==
    IF i >= MaxNodes THEN << >>
    ELSE IF j > MaxNodes THEN PairsFrom(i + 1, i + 2)
    ELSE << <<NodeNames[i], NodeNames[j]>> >> \o PairsFrom(i, j + 1)

(* every edge between the first MaxNodes labels, in a fixed order *)
AllPairs == PairsFrom(1, 2)

(* edge lists without duplicates and self-loops, and the program's own *)
Graphs ==
    {SelectSeq(AllPairs, LAMBDA e : e \in S) :
        S \in (SUBSET {AllPairs[k] : k \in 1..Len(AllPairs)}) \ {{}}}
    \cup {edges}

(* G.nodes() after G.add_edges_from(g) *)
NodesOf(g) == {g[k][1] : k \in 1..Len(g)} \cup {g[k][2] : k \in 1..Len(g)}

RECURSIVE AdjacencyFrom(_, _, _)
AdjacencyFrom(g, node, k) ==
    IF k > Len(g) THEN << >>
    ELSE IF g[k][1] = node THEN <<g[k][2]>> \o AdjacencyFrom(g, node, k + 1)
    ELSE IF g[k][2] = node THEN <<g[k][1]>> \o AdjacencyFrom(g, node, k + 1)
    ELSE AdjacencyFrom(g, node, k + 1)

(* G.neighbors(node) for the graph built from the edge list g *)
AdjacencyOf(g, node) == AdjacencyFrom(g, node, 1)

(* the locals of a run as one value *)
Run == [queue |-> t_queue, stack |-> t_stack, visited |-> t_visited,
        steps |-> t_steps, order |-> t_order]

(* bfs_traversal that takes the newest entry: queue.pop() for popleft() *)
bfs_iteration_lifo(g, r) ==
    LET node == r.queue[Len(r.queue)]
        rest == SubSeq(r.queue, 1, Len(r.queue) - 1)
    IN IF node \notin r.visited
       THEN LET v2 == r.visited \cup {node}
            IN [r EXCEPT !.visited = v2,
                         !.steps = Append(r.steps, v2),
                         !.order = Append(r.order, node),
                         !.queue = rest \o SelectSeq(AdjacencyOf(g, node),
                                                     LAMBDA n : n \notin v2)]
       ELSE [r EXCEPT !.queue = rest]

(* bfs_traversal without the "if node not in visited" test *)
bfs_iteration_noVisitedTest(g, r) ==
    LET node == Head(r.queue)
        rest == Tail(r.queue)
        v2 == r.visited \cup {node}
    IN [r EXCEPT !.visited = v2,
                 !.steps = Append(r.steps, v2),
                 !.order = Append(r.order, node),
                 !.queue = rest \o SelectSeq(AdjacencyOf(g, node),
                                             LAMBDA n : n \notin v2)]

(* bfs_traversal with steps.append(visited): every entry of steps is the one
   set object, so all of them show its latest contents *)
bfs_iteration_aliased(g, r) ==
    LET node == Head(r.queue)
        rest == Tail(r.queue)
    IN IF node \notin r.visited
       THEN LET v2 == r.visited \cup {node}
            IN [r EXCEPT !.visited = v2,
                         !.steps = [i \in 1..(Len(r.steps) + 1) |-> v2],
                         !.order = Append(r.order, node),
                         !.queue = rest \o SelectSeq(AdjacencyOf(g, node),
                                                     LAMBDA n : n \notin v2)]
       ELSE [r EXCEPT !.queue = rest]

(* body of "while queue:" in bfs_traversal *)
bfs_iteration(g, r) ==
    LET node == Head(r.queue)
        rest == Tail(r.queue)
    IN IF node \notin r.visited
       THEN LET v2 == r.visited \cup {node}
            IN [r EXCEPT !.visited = v2,
                         !.steps = Append(r.steps, v2),
                         !.order = Append(r.order, node),
                         !.queue = rest \o SelectSeq(AdjacencyOf(g, node),
                                                     LAMBDA n : n \notin v2)]
       ELSE [r EXCEPT !.queue = rest]

(* dfs_traversal that pushes the neighbours without reversed() *)
dfs_iteration_noReverse(g, r) ==
    LET node == r.stack[Len(r.stack)]
        rest == SubSeq(r.stack, 1, Len(r.stack) - 1)
    IN IF node \notin r.visited
       THEN LET v2 == r.visited \cup {node}
            IN [r EXCEPT !.visited = v2,
                         !.steps = Append(r.steps, v2),
                         !.order = Append(r.order, node),
                         !.stack = rest \o AdjacencyOf(g, node)]
       ELSE [r EXCEPT !.stack = rest]

(* body of "while stack:" in dfs_traversal *)
dfs_iteration(g, r) ==
    LET node == r.stack[Len(r.stack)]
        rest == SubSeq(r.stack, 1, Len(r.stack) - 1)
    IN IF node \notin r.visited
       THEN LET v2 == r.visited \cup {node}
            IN [r EXCEPT !.visited = v2,
                         !.steps = Append(r.steps, v2),
                         !.order = Append(r.order, node),
                         !.stack = rest \o Reverse(AdjacencyOf(g, node))]
       ELSE [r EXCEPT !.stack = rest]

SetRun(r) ==
    /\ t_queue' = r.queue
    /\ t_stack' = r.stack
    /\ t_visited' = r.visited
    /\ t_steps' = r.steps
    /\ t_order' = r.order

PlaybackVars == <<traversal_type, current_step, is_playing, is_paused,
                  current_animation, clears_event_source, lastEvent, pre,
                  error>>

(* entry of bfs_traversal(start) / dfs_traversal(start) *)
TraversalInit ==
    /\ PlaybackInit
    /\ clears_event_source = FALSE
    /\ t_graph \in Graphs
    /\ t_start \in NodesOf(t_graph)
    /\ t_alg \in Algorithms
    /\ t_queue = IF t_alg = "BFS" THEN <<t_start>> ELSE << >>
    /\ t_stack = IF t_alg = "DFS" THEN <<t_start>> ELSE << >>
    /\ t_visited = {}
    /\ t_steps = << >>
    /\ t_order = << >>
    /\ t_pc = "loop"

BfsIterate ==
    /\ t_pc = "loop"
    /\ t_alg = "BFS"
    /\ t_queue # << >>
    /\ SetRun(bfs_iteration(t_graph, Run))
    /\ UNCHANGED <<t_graph, t_start, t_alg, t_pc>>
    /\ UNCHANGED PlaybackVars

DfsIterate ==
    /\ t_pc = "loop"
    /\ t_alg = "DFS"
    /\ t_stack # << >>
    /\ SetRun(dfs_iteration(t_graph, Run))
    /\ UNCHANGED <<t_graph, t_start, t_alg, t_pc>>
    /\ UNCHANGED PlaybackVars

(* the loop condition fails: return steps *)
TraversalReturn ==
    /\ t_pc = "loop"
    /\ t_queue = << >>
    /\ t_stack = << >>
    /\ t_pc' = "done"
    /\ UNCHANGED <<t_graph, t_start, t_alg, t_queue, t_stack, t_visited,
                   t_steps, t_order>>
    /\ UNCHANGED PlaybackVars

TraversalNext ==
    \/ BfsIterate
    \/ DfsIterate
    \/ TraversalReturn

TraversalSpec == TraversalInit /\ [][TraversalNext]_vars

(* A playback that no user event interrupts: the user selects and steps
   only while no animation has been created, presses Start, and from then
   on only the timer acts. *)
BeforeStart ==
    /\ current_animation = None
    /\ (SelectAlgorithm \/ NextStep \/ PrevStep \/ Toggle)

UninterruptedNext ==
    \/ BeforeStart
    \/ TimerTick

(* the timer of a running animation keeps firing every interval *)
UninterruptedSpec ==
    Init /\ [][UninterruptedNext]_vars /\ WF_vars(TimerTick)

(* a Python loop that can take its next iteration takes it *)
TraversalFairSpec == TraversalSpec /\ WF_vars(TraversalNext)

---------------------------------------------------------------------------
(* Derived notions *)

Idle == ~is_playing /\ ~is_paused
Playing == is_playing
Paused == is_paused /\ ~is_playing

TimerRunning ==
    current_animation # None /\ current_animation[1].event_source = "running"

ActiveLen == Len(StepsOf(traversal_type))

PreRunning ==
    pre.current_animation # None
    /\ pre.current_animation[1].event_source = "running"

(* the program state apart from the history variables *)
SameAsPre ==
    /\ traversal_type = pre.traversal_type
    /\ current_step = pre.current_step
    /\ is_playing = pre.is_playing
    /\ is_paused = pre.is_paused
    /\ current_animation = pre.current_animation

TypeOK ==
    /\ traversal_type \in Algorithms
    /\ current_step \in Int
    /\ is_playing \in BOOLEAN
    /\ is_paused \in BOOLEAN
    /\ error \in BOOLEAN

---------------------------------------------------------------------------
(* Claims.  lastEvent names the event that produced the state, pre is the
   state it was applied to. *)

PreLen == Len(StepsOf(pre.traversal_type))

PreIdle == ~pre.is_playing /\ ~pre.is_paused

(* the tick drew a frame (the animation's iterator was not exhausted) *)
TickDrewFrame ==
    /\ lastEvent = "TimerTick"
    /\ pre.current_animation[1].frame < pre.current_animation[1].frames

(* C1: Reset, applied in any reachable state, yields status Idle (neither
   playing nor paused) and current_step = 0. *)
C1_ResetYieldsIdleAtZero ==
    lastEvent = "Reset" => (Idle /\ current_step = 0)

(* Reset applied to a running playback in the middle of the sequence *)
C1_Witness ==
    /\ lastEvent = "Reset"
    /\ pre.is_playing
    /\ PreRunning
    /\ pre.current_step > 0
    /\ pre.traversal_type = "DFS"

(* C2: SelectAlgorithm issued while status is Playing stops the timer, sets
   status to Idle and current_step to 0. *)
C2_SelectWhilePlayingStopsPlayback ==
    (lastEvent = "SelectAlgorithm" /\ pre.is_playing)
        => (Idle /\ ~TimerRunning /\ current_step = 0)

(* C3: whenever status is not Playing the timer is stopped, a tick is only
   ever applied to a Playing state, and no tick directly follows a Pause or
   a Reset. *)
C3_NoTickUnlessPlaying ==
    /\ ~is_playing => ~TimerRunning
    /\ lastEvent = "TimerTick" => pre.is_playing
    /\ lastEvent = "TimerTick" => pre.lastEvent \notin {"Pause", "Reset"}

(* Pause of a running playback in the middle of the sequence *)
C3_Witness ==
    /\ lastEvent = "Pause"
    /\ pre.is_playing
    /\ PreRunning
    /\ pre.current_animation[1].frame < pre.current_animation[1].frames
    /\ Paused
    /\ ~TimerRunning

(* C4: a tick in status Playing increases current_step by one; when that
   makes current_step >= len(steps) the timer is stopped and status is Idle;
   a playback whose timer has run out is Idle at current_step = len(steps). *)
C4_TickAdvancesAndPlaybackEndsIdle ==
    /\ (lastEvent = "TimerTick" /\ pre.is_playing)
          => current_step = pre.current_step + 1
    /\ (lastEvent = "TimerTick" /\ current_step >= ActiveLen)
          => (Idle /\ ~TimerRunning)
    /\ (lastEvent = "TimerTick" /\ ~TimerRunning)
          => (Idle /\ current_step = ActiveLen)

(* C5: Next with current_step < len(steps), len(steps) - 1 included,
   increases current_step by exactly one and, if status was Playing, stops
   the timer and sets status to Paused. *)
C5_NextAdvancesBelowLen ==
    (lastEvent = "Next" /\ pre.current_step < PreLen)
        => /\ current_step = pre.current_step + 1
           /\ pre.is_playing => (Paused /\ ~TimerRunning)

(* C6: Prev with current_step > 0 decreases current_step by exactly one and,
   if status was Playing, stops the timer and sets status to Paused. *)
C6_PrevStepsBackAndPauses ==
    (lastEvent = "Prev" /\ pre.current_step > 0)
        => /\ current_step = pre.current_step - 1
           /\ pre.is_playing => (Paused /\ ~TimerRunning)

(* C7: Resume sets status to Playing without changing current_step, and the
   first tick after it yields the index held at the resume plus one. *)
C7_ResumeContinuesAtCurrentIndex ==
    /\ lastEvent = "Resume"
          => (is_playing /\ ~is_paused /\ current_step = pre.current_step)
    /\ (lastEvent = "TimerTick" /\ pre.lastEvent = "Resume")
          => current_step = pre.current_step + 1

(* C8: Start in status Idle sets current_step to 0 whatever it was, starts a
   timer over the selected algorithm's sequence and sets status Playing. *)
C8_StartFromIdleRewinds ==
    lastEvent = "Start"
        => /\ PreIdle
           /\ current_step = 0
           /\ is_playing /\ ~is_paused
           /\ traversal_type = pre.traversal_type
           /\ TimerRunning
           /\ current_animation[1].frame = 0
           /\ current_animation[1].frames = ActiveLen

(* Start after manual Next steps with DFS selected *)
C8_Witness ==
    /\ lastEvent = "Start"
    /\ pre.current_step > 1
    /\ pre.traversal_type = "DFS"

(* C9: an event whose precondition is false changes nothing and raises no
   error: Next at the end of the sequence (from len(steps) - 1 on, the index
   len(steps) included), Prev at 0, Pause when status is not Playing. *)
C9_DisabledEventsAreNoOps ==
    /\ (lastEvent = "Next" /\ pre.current_step >= PreLen - 1)
          => (SameAsPre /\ ~error)
    /\ (lastEvent = "Prev" /\ pre.current_step = 0)
          => (SameAsPre /\ ~error)
    /\ (lastEvent = "Pause" /\ ~pre.is_playing)
          => (SameAsPre /\ ~error)

(* Prev at index 0 while a playback is running *)
C9_Witness ==
    /\ lastEvent = "Prev"
    /\ pre.current_step = 0
    /\ pre.is_playing
    /\ PreRunning
    /\ SameAsPre

(* C10: 0 <= current_step <= len(steps) of the selected algorithm, in every
   reachable state. *)
C10_StepIndexInRange ==
    0 <= current_step /\ current_step <= ActiveLen

(* the largest index the program reaches, delivered by the timer *)
C10_Witness ==
    /\ TickDrewFrame
    /\ current_step = ActiveLen - 1
    /\ pre.current_step = 0

---------------------------------------------------------------------------
(* Claims about the traversals, stated of a run that has returned *)

Returned == t_pc = "done"

(* the run the program makes at lines 168-169 *)
ProgramRun(a) ==
    Returned /\ t_graph = edges /\ t_start = start /\ t_alg = a

RECURSIVE Closure(_, _)
Closure(g, S) ==
    LET N == S \cup {n \in NodesOf(g) :
                        \E m \in S : \E k \in 1..Len(AdjacencyOf(g, m)) :
                            AdjacencyOf(g, m)[k] = n}
    IN IF N = S THEN S ELSE Closure(g, N)

(* the nodes joined to s by some path *)
Reachable(g, s) == Closure(g, {s})

(* position of node n in t_order, 0 if it was never visited *)
VisitedAt(n) ==
    IF \E i \in 1..Len(t_order) : t_order[i] = n
    THEN CHOOSE i \in 1..Len(t_order) : t_order[i] = n
    ELSE 0

RECURSIVE PreOrderFrom(_, _, _)
RECURSIVE PreOrderList(_, _, _, _)
(* recursive depth-first pre-order: visit node, then each neighbour in
   adjacency order unless it has been visited meanwhile *)
PreOrderFrom(g, node, acc) ==
    IF \E i \in 1..Len(acc) : acc[i] = node
    THEN acc
    ELSE PreOrderList(g, AdjacencyOf(g, node), 1, Append(acc, node))
PreOrderList(g, ns, k, acc) ==
    IF k > Len(ns) THEN acc
    ELSE PreOrderList(g, ns, k + 1, PreOrderFrom(g, ns[k], acc))

PreOrder(g, s) == PreOrderFrom(g, s, << >>)

(* C11: on the program's graph from A, BFS visits the nodes for the first
   time in the order A, B, C, H, D, E, F, G, I, and the snapshots it returns
   are the sets of the first 1, 2, ... nodes of that order, the sequence the
   playback uses as bfs_steps. *)
C11_BfsOrderOnProgramGraph ==
    ProgramRun("BFS")
        => /\ t_order = <<"A", "B", "C", "H", "D", "E", "F", "G", "I">>
           /\ t_steps = [i \in 1..Len(t_order) |->
                            {t_order[j] : j \in 1..i}]
           /\ t_steps = bfs_steps

C11_Witness ==
    ProgramRun("BFS") /\ Len(t_order) = 9 /\ t_queue = << >>

(* C12: for BFS and DFS alike the returned sequence starts with {start},
   every later snapshot is the previous one plus exactly one node, the last
   snapshot is the set of nodes reachable from start, and the length is the
   size of that set (so both traversals return equally many steps). *)
C12_SnapshotsGrowToComponent ==
    Returned
        => /\ Len(t_steps) >= 1
           /\ t_steps[1] = {t_start}
           /\ \A i \in 2..Len(t_steps) :
                 /\ t_steps[i - 1] \subseteq t_steps[i]
                 /\ Cardinality(t_steps[i]) = Cardinality(t_steps[i - 1]) + 1
           /\ t_steps[Len(t_steps)] = Reachable(t_graph, t_start)
           /\ Len(t_steps) = Cardinality(Reachable(t_graph, t_start))

(* a DFS run on a graph with nodes outside the start's component *)
C12_Witness ==
    /\ Returned
    /\ t_alg = "DFS"
    /\ Len(t_steps) = 2
    /\ t_steps[2] = Reachable(t_graph, t_start)
    /\ Reachable(t_graph, t_start) # NodesOf(t_graph)

(* C13: DFS from A on the program's graph (adjacency of A: B, C, H) visits
   B, D and E before H and I, and the first-visit order of a DFS run is the
   recursive pre-order that follows adjacency order at every node. *)
C13_DfsFollowsAdjacencyOrder ==
    /\ ProgramRun("DFS")
          => /\ AdjacencyOf(t_graph, "A") = <<"B", "C", "H">>
             /\ \A b \in {"B", "D", "E"} : \A h \in {"H", "I"} :
                   /\ VisitedAt(b) > 0
                   /\ VisitedAt(b) < VisitedAt(h)
             /\ t_steps = dfs_steps
    /\ (Returned /\ t_alg = "DFS")
          => t_order = PreOrder(t_graph, t_start)

C13_Witness ==
    /\ ProgramRun("DFS")
    /\ t_order = <<"A", "B", "D", "E", "C", "F", "G", "H", "I">>

(* C14 as stated: on the program's graph from A the BFS step sequence
   consists of 8 distinct snapshots. *)
C14_EightSnapshots ==
    ProgramRun("BFS")
        => /\ Len(t_steps) = 8
           /\ \A i, j \in 1..Len(t_steps) : i # j => t_steps[i] # t_steps[j]

(* C14 amended: on the program's graph from A the BFS step sequence consists
   of 9 distinct snapshots, one per node. *)
C14_NineSnapshots ==
    ProgramRun("BFS")
        => /\ Len(t_steps) = 9
           /\ Len(bfs_steps) = 9
           /\ \A i, j \in 1..Len(t_steps) : i # j => t_steps[i] # t_steps[j]

C14_Witness ==
    ProgramRun("BFS") /\ Len(t_steps) = Cardinality(NodesOf(edges))

---------------------------------------------------------------------------
(* Claims about a whole playback and about the flags *)

Started == current_animation # None

(* C15: playback does not loop.  After Start from Idle with no user event
   and a timer that keeps firing, the animation draws at most len(steps)
   frames, current_step never goes back, and the timer eventually stops and
   stays stopped. *)
C15_PlaybackDoesNotLoop ==
    /\ [](Started => /\ current_animation[1].frames = ActiveLen
                     /\ current_animation[1].frame <= ActiveLen)
    /\ [][(Started /\ Started') => current_step' >= current_step]_vars
    /\ [][(Started /\ ~TimerRunning) => ~TimerRunning']_vars
    /\ (Started ~> ~TimerRunning)

(* the timer has stopped after the last frame of a DFS playback *)
C15_Witness ==
    /\ Started
    /\ ~TimerRunning
    /\ lastEvent = "TimerTick"
    /\ traversal_type = "DFS"
    /\ current_animation[1].frame = ActiveLen
    /\ current_step = ActiveLen - 1

(* C16: the BFS and DFS loops terminate on every graph and start node of the
   family: each node is expanded at most once, the run returns, and the
   work list is empty when it does. *)
C16_TraversalsTerminate ==
    /\ [](\A i, j \in 1..Len(t_order) : i # j => t_order[i] # t_order[j])
    /\ [](Returned => (t_queue = << >> /\ t_stack = << >>))
    /\ <>Returned

(* a DFS run has returned on a graph with a cycle, having popped entries
   that were already visited *)
C16_Witness ==
    /\ Returned
    /\ t_alg = "DFS"
    /\ Len(t_graph) >= Cardinality(NodesOf(t_graph))
    /\ Len(t_order) = Cardinality(NodesOf(t_graph))

(* C17: is_playing and is_paused are never both true. *)
C17_FlagsExclusive ==
    ~(is_playing /\ is_paused)

(* Resume has just exchanged the two flags *)
C17_Witness ==
    /\ lastEvent = "Resume"
    /\ pre.is_paused /\ ~pre.is_playing
    /\ is_playing /\ ~is_paused

(* C18: whenever Start creates a new animation, the animation it replaces,
   if any, is neither running nor resumable (its event source is gone). *)
C18_StartReplacesNoLiveAnimation ==
    lastEvent = "Start"
        => \/ pre.current_animation = None
           \/ pre.current_animation[1].event_source = "None"

(* Start over an animation that had run to its end and survived Reset *)
C18_Witness ==
    /\ lastEvent = "Start"
    /\ pre.lastEvent = "Reset"
    /\ pre.current_animation # None
    /\ TimerRunning

(* C19: every event but SelectAlgorithm leaves traversal_type as it was. *)
C19_OnlySelectChangesAlgorithm ==
    lastEvent # "SelectAlgorithm" => traversal_type = pre.traversal_type

(* Reset with DFS selected keeps DFS *)
C19_Witness ==
    /\ lastEvent = "Reset"
    /\ pre.traversal_type = "DFS"
    /\ pre.is_playing
    /\ traversal_type = "DFS"

====
